---- MODULE Spec2Model ----
(***************************************************************************)
(* Symbolic interpreter of greed: the private call/return convention of    *)
(* greed/TAC/gigahorse_ops.py, the SimProcedure entry statement of         *)
(* greed/simprocedures/base.py and the SAFEMATH stubs of                   *)
(* greed/simprocedures/safemath.py.                                        *)
(*                                                                         *)
(* One execution state (registers, callstack, pc, halt, path constraints)  *)
(* is stepped by statement handlers.  A handler is an operator from the    *)
(* state and the statement to the state it leaves behind plus its outcome: *)
(* "ok" (it returned [state]), "pruned" (it returned []), or the name of   *)
(* the exception that left it.                                             *)
(***************************************************************************)
EXTENDS Integers, Sequences, FiniteSets, TLC

VARIABLES
    registers,    \* state.registers: variable name -> term (Unbound: no entry)
    callstack,    \* state.callstack: list of frames, top is the last element
    pc,           \* state.pc: id of the statement to execute next
    halt,         \* state.halt
    constraints,  \* state.solver path constraints, in the order they were added
    out,          \* outcome of the last handler run on this state
    code,         \* the program: the statement at every pc executed so far
    simproc,      \* the SimProcedure installed as entry statement of function "g"
    last,         \* history: the statement executed last, the state it ran on, the
                  \* calls open then, the values it returned, the statement before it
                  \* and the state that one ran on
    calls,        \* history: number of CALLPRIVATE that pushed a frame
    rets,         \* history: number of private returns that popped a frame
    depth0,       \* history: callstack depth of the initial state
    opencalls,    \* history: the CALLPRIVATE not yet returned from, innermost last
    steps         \* history: number of statements executed

vars == <<registers, callstack, pc, halt, constraints, out, code, simproc, last,
          calls, rets, depth0, opencalls, steps>>

(***************************************************************************)
(* Bounds.                                                                 *)
(***************************************************************************)
\* Width of a machine word in bits.  The source uses 256; every limit of the
\* stubs is written in terms of WordBits so that overflow happens in range.
WordBits == 2
\* Number of statements executed on one path.
MaxSteps == 4

Min(m, n) == IF m < n THEN m ELSE n

RECURSIVE Pow2(_)
Pow2(n) == IF n = 0 THEN 1 ELSE 2 * Pow2(n - 1)

\* 2**256 of the source: the first integer that does not fit in a word.
WordLimit == Pow2(WordBits)

(***************************************************************************)
(* Terms of the solver (greed.solver.shortcuts).  The solver is an opaque  *)
(* capability: a term is the constructor applied to its operands.          *)
(*   op   constructor, val  literal value / symbol number / extension,     *)
(*   w    bit width (0 for a boolean), args operands.                      *)
(***************************************************************************)
Unbound == [op |-> "unbound", val |-> 0, w |-> 0, args |-> <<>>]

BVV(v, w) == [op |-> "BVV", val |-> v, w |-> w, args |-> <<>>]
BVS(i) == [op |-> "BVS", val |-> i, w |-> WordBits, args |-> <<>>]
BV_Add(a, b) == [op |-> "BV_Add", val |-> 0, w |-> a.w, args |-> <<a, b>>]
BV_Sub(a, b) == [op |-> "BV_Sub", val |-> 0, w |-> a.w, args |-> <<a, b>>]
BV_Mul(a, b) == [op |-> "BV_Mul", val |-> 0, w |-> a.w, args |-> <<a, b>>]
BV_UDiv(a, b) == [op |-> "BV_UDiv", val |-> 0, w |-> a.w, args |-> <<a, b>>]
BV_Zero_Extend(a, n) == [op |-> "BV_Zero_Extend", val |-> n, w |-> a.w + n, args |-> <<a>>]
BV_ULT(a, b) == [op |-> "BV_ULT", val |-> 0, w |-> 0, args |-> <<a, b>>]
BV_UGE(a, b) == [op |-> "BV_UGE", val |-> 0, w |-> 0, args |-> <<a, b>>]
NotEqual(a, b) == [op |-> "NotEqual", val |-> 0, w |-> 0, args |-> <<a, b>>]

\* state.solver.is_concrete / state.solver.eval
is_concrete(t) == t.op = "BVV"
eval(t) == t.val

(***************************************************************************)
(* The program index (project.factory): three functions.                   *)
(*   "f"  an ordinary function with three formals;                         *)
(*   "h"  an ordinary function with one formal;                            *)
(*   "g"  a function whose entry statement is a SimProcedure statement.    *)
(* Variable names are unique across the program, as in Gigahorse output.   *)
(***************************************************************************)
Vars == {"a", "b", "c", "d", "x", "y", "r", "s"}
Functions == {"f", "g", "h"}

\* target_bb.function.arguments
Arguments(fn) ==
    IF fn = "f" THEN <<"a", "b", "c">>
    ELSE IF fn = "h" THEN <<"d">>
    ELSE <<"x", "y">>

\* target_bb.first_ins.id
FirstIns(fn) == IF fn = "f" THEN 10 ELSE IF fn = "h" THEN 40 ELSE 20

\* project.factory.block('fake_exit').statements[0].id
FakeExitPc == 30

\* state.set_next_pc(): the next sequential statement
set_next_pc(p) == p + 1

\* state.get_fallthrough_pc(): the statement after the call site; has_ft is
\* FALSE when the call site has no successor (VMNoSuccessors is raised).
get_fallthrough_pc(p) == p + 1

(***************************************************************************)
(* The execution state as one value, and handler results.                  *)
(***************************************************************************)
State == [registers |-> registers, callstack |-> callstack, pc |-> pc,
          halt |-> halt, constraints |-> constraints]

\* A handler result: the state as the handler left it, the outcome, and the
\* value list it handed to the return primitive (<<>> when it handed none).
\* return [state]
Ok(s) == [s |-> s, out |-> "ok", returned |-> <<>>]
\* return []
Pruned(s) == [s |-> s, out |-> "pruned", returned |-> <<>>]
\* an exception leaves the handler; s is the state as mutated so far
Raise(s, exc) == [s |-> s, out |-> exc, returned |-> <<>>]

\* state.registers[name]: reading a register that was never written is fatal
IsBound(s, name) == s.registers[name] # Unbound

RECURSIVE AllBound(_, _)
AllBound(s, names) ==
    IF names = <<>> THEN TRUE
    ELSE IsBound(s, Head(names)) /\ AllBound(s, Tail(names))

\* [state.registers[n] for n in names]
ReadAll(s, names) == [i \in 1..Len(names) |-> s.registers[names[i]]]

\* Variant that adds the constraint without the safemath attribute.
add_path_constraint_untagged(s, c) ==
    [s EXCEPT !.constraints = Append(@, [formula |-> c, safemath |-> FALSE])]

\* state.solver.add_path_constraint(c) after setattr(c, "safemath", True)
add_path_constraint(s, c) ==
    [s EXCEPT !.constraints = Append(@, [formula |-> c, safemath |-> TRUE])]

(***************************************************************************)
(* Statements.  Every statement has the same shape:                        *)
(*   kind      __internal_name__                                           *)
(*   arg_vars  operand variables; slot 1 of CALLPRIVATE is the target      *)
(*             operand, whose value is target                              *)
(*   res_vars  result variables                                            *)
(*   target    CALLPRIVATE: the function of the block arg1_val names       *)
(*   has_ft    CALLPRIVATE: whether the call site has a fallthrough        *)
(*   val       CONST: res1_val                                             *)
(***************************************************************************)
Stmt(kind, arg_vars, res_vars, target, has_ft, val) ==
    [kind |-> kind, arg_vars |-> arg_vars, res_vars |-> res_vars,
     target |-> target, has_ft |-> has_ft, val |-> val]

NoStmt == Stmt("none", <<>>, <<>>, "f", TRUE, 0)

(***************************************************************************)
(* TAC_Returnprivate.return_values                                         *)
(***************************************************************************)
\* for callprivate_return_var, value in zip(callprivate_return_vars, values):
\*     state.registers[callprivate_return_var] = value
RECURSIVE BindResults(_, _, _, _)
BindResults(regs, return_vars, values, i) ==
    IF i > Min(Len(return_vars), Len(values)) THEN regs
    ELSE BindResults([regs EXCEPT ![return_vars[i]] = values[i]],
                     return_vars, values, i + 1)

\* Variant: the frame is read but left on the callstack.
return_values_keep_frame(s, values) ==
    IF s.callstack = <<>>
    THEN [Raise(s, "IndexError") EXCEPT !.returned = values]
    ELSE LET frame == s.callstack[Len(s.callstack)]
         IN [Ok([s EXCEPT
                   !.registers = BindResults(@, frame.callprivate_return_vars, values, 1),
                   !.pc = frame.saved_return_pc])
             EXCEPT !.returned = values]

\* Variant: pc is restored to the call site instead of the saved return pc.
return_values_to_call_site(s, values) ==
    IF s.callstack = <<>>
    THEN [Raise(s, "IndexError") EXCEPT !.returned = values]
    ELSE LET frame == s.callstack[Len(s.callstack)]
         IN [Ok([s EXCEPT
                   !.callstack = SubSeq(@, 1, Len(@) - 1),
                   !.registers = BindResults(@, frame.callprivate_return_vars, values, 1),
                   !.pc = frame.callprivate_pc])
             EXCEPT !.returned = values]

\* Variant that serves the oldest frame first.
return_values_fifo(s, values) ==
    IF s.callstack = <<>>
    THEN [Raise(s, "IndexError") EXCEPT !.returned = values]
    ELSE LET frame == s.callstack[1]
         IN [Ok([s EXCEPT
                   !.callstack = Tail(@),
                   !.registers = BindResults(@, frame.callprivate_return_vars, values, 1),
                   !.pc = frame.saved_return_pc])
             EXCEPT !.returned = values]

\* Variant that treats an empty callstack as the end of the outermost
\* function and carries on at the next statement.
return_values_lenient(s, values) ==
    IF s.callstack = <<>>
    THEN [Ok([s EXCEPT !.pc = set_next_pc(@)]) EXCEPT !.returned = values]
    ELSE LET frame == s.callstack[Len(s.callstack)]
         IN [Ok([s EXCEPT
                   !.callstack = SubSeq(@, 1, Len(@) - 1),
                   !.registers = BindResults(@, frame.callprivate_return_vars, values, 1),
                   !.pc = frame.saved_return_pc])
             EXCEPT !.returned = values]

return_values(s, values) ==
    IF s.callstack = <<>>
    THEN [Raise(s, "IndexError") EXCEPT !.returned = values]  \* pop from empty list
    ELSE LET frame == s.callstack[Len(s.callstack)]
         IN [Ok([s EXCEPT
                   !.callstack = SubSeq(@, 1, Len(@) - 1),
                   !.registers = BindResults(@, frame.callprivate_return_vars, values, 1),
                   !.pc = frame.saved_return_pc])
             EXCEPT !.returned = values]

\* TAC_Returnprivate.handle
\* Variant that returns every operand, the first slot included.
Returnprivate_handle_all_operands(s, stmt) ==
    LET returnprivate_arg_names == stmt.arg_vars
    IN IF ~AllBound(s, returnprivate_arg_names) THEN Raise(s, "uninitialized")
       ELSE return_values(s, ReadAll(s, returnprivate_arg_names))

Returnprivate_handle(s, stmt) ==
    LET returnprivate_arg_names == Tail(stmt.arg_vars)
    IN IF ~AllBound(s, returnprivate_arg_names) THEN Raise(s, "uninitialized")
       ELSE return_values(s, ReadAll(s, returnprivate_arg_names))

(***************************************************************************)
(* TAC_Callprivate.handle                                                  *)
(***************************************************************************)
\* alias_arg_map = dict(zip(args_alias, args)), then one assignment per pair,
\* in order, each reading the registers as the earlier assignments left them.
\* The formals of a function are distinct, so the dict is the zip.
\* Variant: a call whose actuals and formals differ in number is refused.
RECURSIVE BindArgs_strict(_, _, _, _)
BindArgs_strict(s, args_alias, args, i) ==
    IF Len(args_alias) # Len(args) THEN Raise(s, "ValueError")
    ELSE IF i > Len(args) THEN Ok(s)
    ELSE IF ~IsBound(s, args[i]) THEN Raise(s, "uninitialized")
    ELSE BindArgs_strict([s EXCEPT !.registers[args_alias[i]] = s.registers[args[i]]],
                         args_alias, args, i + 1)

RECURSIVE BindArgs(_, _, _, _)
BindArgs(s, args_alias, args, i) ==
    IF i > Min(Len(args_alias), Len(args)) THEN Ok(s)
    ELSE IF ~IsBound(s, args[i]) THEN Raise(s, "uninitialized")
    ELSE BindArgs([s EXCEPT !.registers[args_alias[i]] = s.registers[args[i]]],
                  args_alias, args, i + 1)

saved_return_pc(s, stmt) ==
    IF stmt.has_ft THEN get_fallthrough_pc(s.pc) ELSE FakeExitPc

PushFrame(s, stmt) ==
    Append(s.callstack, [callprivate_pc |-> s.pc,
                         saved_return_pc |-> saved_return_pc(s, stmt),
                         callprivate_return_vars |-> stmt.res_vars])

\* Variant without the fallback to the fake-exit block: a call site with no
\* successor lets VMNoSuccessors escape.
Callprivate_handle_no_fallback(s, stmt) ==
    LET args == Tail(stmt.arg_vars)
        args_alias == Arguments(stmt.target)
        bound == BindArgs(s, args_alias, args, 1)
    IN IF ~stmt.has_ft THEN Raise(s, "VMNoSuccessors")
       ELSE IF bound.out # "ok" THEN bound
       ELSE Ok([bound.s EXCEPT !.callstack = PushFrame(s, stmt),
                               !.pc = FirstIns(stmt.target)])

Callprivate_handle(s, stmt) ==
    LET args == Tail(stmt.arg_vars)
        args_alias == Arguments(stmt.target)
        bound == BindArgs(s, args_alias, args, 1)
    IN IF bound.out # "ok" THEN bound
       ELSE Ok([bound.s EXCEPT !.callstack = PushFrame(s, stmt),
                               !.pc = FirstIns(stmt.target)])

(***************************************************************************)
(* Base statements                                                         *)
(***************************************************************************)
\* Variant that also steps past the THROW.
Throw_handle_advances(s, stmt) == Ok([s EXCEPT !.halt = TRUE, !.pc = set_next_pc(@)])

Throw_handle(s, stmt) == Ok([s EXCEPT !.halt = TRUE])
Phi_handle(s, stmt) == Ok([s EXCEPT !.pc = set_next_pc(@)])
Const_handle(s, stmt) ==
    Ok([s EXCEPT !.registers[stmt.res_vars[1]] = BVV(stmt.val, WordBits),
                 !.pc = set_next_pc(@)])
Nop_handle(s, stmt) == Ok([s EXCEPT !.pc = set_next_pc(@)])
Callprivateargs_handle(s, stmt) == Ok([s EXCEPT !.pc = set_next_pc(@)])

(***************************************************************************)
(* SAFEMATH stubs (greed/simprocedures/safemath.py).  2**256 is WordLimit. *)
(***************************************************************************)
\* SimProcedureSafeMul.handle
\* Variant: the product is widened by one bit, as the sum is, instead of to
\* twice the width.
SafeMul_handle_one_bit(s, arg_vals) ==
    IF Len(arg_vals) # 2 THEN Raise(s, "AssertionError")
    ELSE LET a == arg_vals[1]
             b == arg_vals[2]
             a_concrete == is_concrete(a)
             b_concrete == is_concrete(b)
         IN IF a_concrete /\ b_concrete THEN
                IF eval(a) * eval(b) < WordLimit
                THEN return_values(s, <<BVV(eval(a) * eval(b), WordBits)>>)
                ELSE Pruned(s)
            ELSE IF a_concrete \/ b_concrete THEN
                LET conc_val == IF a_concrete THEN eval(a) ELSE eval(b)
                    sym == IF a_concrete THEN b ELSE a
                IN \* "if conc_val == 0: result = BVV(0, 256)" is followed by a
                   \* second "if conc_val == 1: ... else: ...", so a zero
                   \* conc_val runs the else branch too: 2**256 // conc_val.
                   IF conc_val = 1 THEN return_values(s, <<sym>>)
                   ELSE IF conc_val = 0 THEN Raise(s, "ZeroDivisionError")
                   ELSE return_values(
                            add_path_constraint(s,
                                BV_ULT(sym, BVV(WordLimit \div conc_val, WordBits))),
                            <<BV_Mul(a, b)>>)
            ELSE return_values(
                     add_path_constraint(s,
                         BV_ULT(BV_Mul(BV_Zero_Extend(a, 1),
                                       BV_Zero_Extend(b, 1)),
                                BVV(WordLimit, WordBits + 1))),
                     <<BV_Mul(a, b)>>)

SafeMul_handle(s, arg_vals) ==
    IF Len(arg_vals) # 2 THEN Raise(s, "AssertionError")
    ELSE LET a == arg_vals[1]
             b == arg_vals[2]
             a_concrete == is_concrete(a)
             b_concrete == is_concrete(b)
         IN IF a_concrete /\ b_concrete THEN
                IF eval(a) * eval(b) < WordLimit
                THEN return_values(s, <<BVV(eval(a) * eval(b), WordBits)>>)
                ELSE Pruned(s)
            ELSE IF a_concrete \/ b_concrete THEN
                LET conc_val == IF a_concrete THEN eval(a) ELSE eval(b)
                    sym == IF a_concrete THEN b ELSE a
                IN \* "if conc_val == 0: result = BVV(0, 256)" is followed by a
                   \* second "if conc_val == 1: ... else: ...", so a zero
                   \* conc_val runs the else branch too: 2**256 // conc_val.
                   IF conc_val = 1 THEN return_values(s, <<sym>>)
                   ELSE IF conc_val = 0 THEN Raise(s, "ZeroDivisionError")
                   ELSE return_values(
                            add_path_constraint(s,
                                BV_ULT(sym, BVV(WordLimit \div conc_val, WordBits))),
                            <<BV_Mul(a, b)>>)
            ELSE return_values(
                     add_path_constraint(s,
                         BV_ULT(BV_Mul(BV_Zero_Extend(a, WordBits),
                                       BV_Zero_Extend(b, WordBits)),
                                BVV(WordLimit, WordBits * 2))),
                     <<BV_Mul(a, b)>>)

\* Variant: the nonzero constraint is put on the dividend.
SafeDiv_handle_dividend(s, arg_vals) ==
    IF Len(arg_vals) # 2 THEN Raise(s, "AssertionError")
    ELSE LET a == arg_vals[1]
             b == arg_vals[2]
         IN return_values(
                add_path_constraint(s, NotEqual(a, BVV(0, WordBits))),
                <<BV_UDiv(a, b)>>)

\* Variant: concrete operands are decided on the spot, as the other three
\* stubs do: a zero divisor prunes, a concrete pair yields the quotient.
SafeDiv_handle_concrete_first(s, arg_vals) ==
    IF Len(arg_vals) # 2 THEN Raise(s, "AssertionError")
    ELSE LET a == arg_vals[1]
             b == arg_vals[2]
         IN IF is_concrete(b) /\ eval(b) = 0 THEN Pruned(s)
            ELSE IF is_concrete(a) /\ is_concrete(b)
            THEN return_values(s, <<BVV(eval(a) \div eval(b), WordBits)>>)
            ELSE return_values(
                     add_path_constraint(s, NotEqual(b, BVV(0, WordBits))),
                     <<BV_UDiv(a, b)>>)

\* SimProcedureSafeDiv.handle
SafeDiv_handle(s, arg_vals) ==
    IF Len(arg_vals) # 2 THEN Raise(s, "AssertionError")
    ELSE LET a == arg_vals[1]
             b == arg_vals[2]
         IN return_values(
                add_path_constraint(s, NotEqual(b, BVV(0, WordBits))),
                <<BV_UDiv(a, b)>>)

\* Variant: a concrete sum equal to 2**256 is accepted (<= for <).
SafeAdd_handle_off_by_one(s, arg_vals) ==
    IF Len(arg_vals) # 2 THEN Raise(s, "AssertionError")
    ELSE LET a == arg_vals[1]
             b == arg_vals[2]
             a_concrete == is_concrete(a)
             b_concrete == is_concrete(b)
         IN IF a_concrete /\ b_concrete THEN
                IF eval(a) + eval(b) <= WordLimit
                THEN return_values(s, <<BVV(eval(a) + eval(b), WordBits)>>)
                ELSE Pruned(s)
            ELSE IF a_concrete \/ b_concrete THEN
                LET conc_val == IF a_concrete THEN eval(a) ELSE eval(b)
                    sym == IF a_concrete THEN b ELSE a
                IN IF conc_val = 0 THEN return_values(s, <<sym>>)
                   ELSE IF ~(conc_val > 0) THEN Raise(s, "AssertionError")
                   ELSE return_values(
                            add_path_constraint(s,
                                BV_ULT(sym, BVV(WordLimit - conc_val, WordBits))),
                            <<BV_Add(a, b)>>)
            ELSE return_values(
                     add_path_constraint(s,
                         BV_ULT(BV_Add(BV_Zero_Extend(a, 1), BV_Zero_Extend(b, 1)),
                                BVV(WordLimit, WordBits + 1))),
                     <<BV_Add(a, b)>>)

\* SimProcedureSafeAdd.handle
\* Variant: the limit is taken from the largest word, 2**256 - 1, instead of
\* 2**256.
SafeAdd_handle_max_limit(s, arg_vals) ==
    IF Len(arg_vals) # 2 THEN Raise(s, "AssertionError")
    ELSE LET a == arg_vals[1]
             b == arg_vals[2]
             a_concrete == is_concrete(a)
             b_concrete == is_concrete(b)
         IN IF a_concrete /\ b_concrete THEN
                IF eval(a) + eval(b) < WordLimit
                THEN return_values(s, <<BVV(eval(a) + eval(b), WordBits)>>)
                ELSE Pruned(s)
            ELSE IF a_concrete \/ b_concrete THEN
                LET conc_val == IF a_concrete THEN eval(a) ELSE eval(b)
                    sym == IF a_concrete THEN b ELSE a
                IN IF conc_val = 0 THEN return_values(s, <<sym>>)
                   ELSE IF ~(conc_val > 0) THEN Raise(s, "AssertionError")
                   ELSE return_values(
                            add_path_constraint(s,
                                BV_ULT(sym, BVV(WordLimit - 1 - conc_val, WordBits))),
                            <<BV_Add(a, b)>>)
            ELSE return_values(
                     add_path_constraint(s,
                         BV_ULT(BV_Add(BV_Zero_Extend(a, 1), BV_Zero_Extend(b, 1)),
                                BVV(WordLimit, WordBits + 1))),
                     <<BV_Add(a, b)>>)

SafeAdd_handle(s, arg_vals) ==
    IF Len(arg_vals) # 2 THEN Raise(s, "AssertionError")
    ELSE LET a == arg_vals[1]
             b == arg_vals[2]
             a_concrete == is_concrete(a)
             b_concrete == is_concrete(b)
         IN IF a_concrete /\ b_concrete THEN
                IF eval(a) + eval(b) < WordLimit
                THEN return_values(s, <<BVV(eval(a) + eval(b), WordBits)>>)
                ELSE Pruned(s)
            ELSE IF a_concrete \/ b_concrete THEN
                LET conc_val == IF a_concrete THEN eval(a) ELSE eval(b)
                    sym == IF a_concrete THEN b ELSE a
                IN IF conc_val = 0 THEN return_values(s, <<sym>>)
                   ELSE IF ~(conc_val > 0) THEN Raise(s, "AssertionError")
                   ELSE return_values(
                            add_path_constraint(s,
                                BV_ULT(sym, BVV(WordLimit - conc_val, WordBits))),
                            <<BV_Add(a, b)>>)
            ELSE return_values(
                     add_path_constraint(s,
                         BV_ULT(BV_Add(BV_Zero_Extend(a, 1), BV_Zero_Extend(b, 1)),
                                BVV(WordLimit, WordBits + 1))),
                     <<BV_Add(a, b)>>)

\* Variant: the no-underflow constraint has its operands swapped.
SafeSub_handle_swapped(s, arg_vals) ==
    IF Len(arg_vals) # 2 THEN Raise(s, "AssertionError")
    ELSE LET a == arg_vals[1]
             b == arg_vals[2]
             a_concrete == is_concrete(a)
             b_concrete == is_concrete(b)
         IN IF a_concrete /\ b_concrete THEN
                IF eval(a) - eval(b) >= 0
                THEN return_values(s, <<BVV(eval(a) - eval(b), WordBits)>>)
                ELSE Pruned(s)
            ELSE return_values(add_path_constraint(s, BV_UGE(b, a)),
                               <<BV_Sub(a, b)>>)

\* SimProcedureSafeSub.handle
SafeSub_handle(s, arg_vals) ==
    IF Len(arg_vals) # 2 THEN Raise(s, "AssertionError")
    ELSE LET a == arg_vals[1]
             b == arg_vals[2]
             a_concrete == is_concrete(a)
             b_concrete == is_concrete(b)
         IN IF a_concrete /\ b_concrete THEN
                IF eval(a) - eval(b) >= 0
                THEN return_values(s, <<BVV(eval(a) - eval(b), WordBits)>>)
                ELSE Pruned(s)
            ELSE return_values(add_path_constraint(s, BV_UGE(a, b)),
                               <<BV_Sub(a, b)>>)

SimProcedures == {"SIMPROCEDURE_SAFEMUL", "SIMPROCEDURE_SAFEDIV",
                  "SIMPROCEDURE_SAFEADD", "SIMPROCEDURE_SAFESUB"}

\* Variant: the formals are read with a default (registers.get), so a formal
\* that was never written reaches the procedure instead of failing.
SimProcedureStatement_handle_defaulted(s, stmt) ==
    LET arg_vals == ReadAll(s, Arguments("g"))
    IN CASE stmt.kind = "SIMPROCEDURE_SAFEMUL" -> SafeMul_handle(s, arg_vals)
         [] stmt.kind = "SIMPROCEDURE_SAFEDIV" -> SafeDiv_handle(s, arg_vals)
         [] stmt.kind = "SIMPROCEDURE_SAFEADD" -> SafeAdd_handle(s, arg_vals)
         [] OTHER -> SafeSub_handle(s, arg_vals)

\* SimProcedureStatement.handle (BaseSimProcedure.as_tac_statement): read the
\* formals of the original function, then run the procedure's handle.
SimProcedureStatement_handle(s, stmt) ==
    LET arg_names == Arguments("g")
    IN IF ~AllBound(s, arg_names) THEN Raise(s, "uninitialized")
       ELSE LET arg_vals == ReadAll(s, arg_names)
            IN CASE stmt.kind = "SIMPROCEDURE_SAFEMUL" -> SafeMul_handle(s, arg_vals)
                 [] stmt.kind = "SIMPROCEDURE_SAFEDIV" -> SafeDiv_handle(s, arg_vals)
                 [] stmt.kind = "SIMPROCEDURE_SAFEADD" -> SafeAdd_handle(s, arg_vals)
                 [] OTHER -> SafeSub_handle(s, arg_vals)

(***************************************************************************)
(* Operands the statements of a path are drawn from.                       *)
(***************************************************************************)
\* The CALLPRIVATE call sites of the program: target, arg_vars (the target
\* operand "t", then the actuals) and res_vars (distinct variables, each a
\* definition of the statement).  "f" has three formals, "g" has two, "h" one.
CallSites == {
    [target |-> "f", arg_vars |-> <<"t", "r", "s", "r">>, res_vars |-> <<"r", "s">>],
    \* a recursive call: the first two formals of "f" swapped, the third missing
    [target |-> "f", arg_vars |-> <<"t", "b", "a">>, res_vars |-> <<"r">>],
    [target |-> "f", arg_vars |-> <<"t", "r", "s">>, res_vars |-> <<"s">>],
    \* a call made inside "f", passing on its first formal
    [target |-> "h", arg_vars |-> <<"t", "a">>, res_vars |-> <<"c">>],
    [target |-> "g", arg_vars |-> <<"t", "r", "s">>, res_vars |-> <<"r">>],
    [target |-> "g", arg_vars |-> <<"t", "r">>, res_vars |-> <<"r", "s">>],
    [target |-> "g", arg_vars |-> <<"t", "r", "s", "r">>, res_vars |-> <<"s", "r">>] }

\* arg_vars of a RETURNPRIVATE: operand slot 1, then the returned variables.
RetArgLists == {<<"s">>, <<"s", "c">>, <<"s", "d">>, <<"s", "a", "b">>}

\* res1_var and res1_val of a CONST
ConstVars == {"s"}
ConstVals == {0, WordLimit - 1}

\* Register contents of a fresh path: r and s hold inputs of the transaction,
\* r symbolic or concrete, s symbolic; nothing else is written yet.
InputVals == {BVS(1), BVV(1, WordBits)}

(***************************************************************************)
(* The interpreter loop: a state is stepped while its last handler         *)
(* returned it, it has not halted and it is not at the fake exit.          *)
(***************************************************************************)
Running == out = "ok" /\ ~halt /\ steps < MaxSteps /\ pc # FakeExitPc
AtSimProcedure == pc = FirstIns("g")

IsReturnKind(kind) == kind = "RETURNPRIVATE" \/ kind \in SimProcedures

\* state.curr_stmt: the statement at pc.  The program is fixed: a pc that is
\* executed again holds the statement it held the first time.
IsCurrStmt(stmt) == pc \in DOMAIN code => code[pc] = stmt

Exec(stmt, res) ==
    /\ IsCurrStmt(stmt)
    /\ code' = (pc :> stmt) @@ code
    /\ registers' = res.s.registers
    /\ callstack' = res.s.callstack
    /\ pc' = res.s.pc
    /\ halt' = res.s.halt
    /\ constraints' = res.s.constraints
    /\ out' = res.out
    /\ last' = [stmt |-> stmt, pre |-> State, opencalls |-> opencalls,
                returned |-> res.returned, prev |-> last.stmt,
                before |-> last.pre]
    /\ calls' = IF stmt.kind = "CALLPRIVATE" /\ res.out = "ok" THEN calls + 1 ELSE calls
    /\ rets' = IF IsReturnKind(stmt.kind) /\ res.out = "ok" THEN rets + 1 ELSE rets
    /\ opencalls' =
         IF stmt.kind = "CALLPRIVATE" /\ res.out = "ok"
         THEN Append(opencalls,
                     [stmt |-> stmt,
                      fallthrough |-> IF stmt.has_ft THEN get_fallthrough_pc(pc)
                                      ELSE FakeExitPc])
         ELSE IF IsReturnKind(stmt.kind) /\ res.out = "ok" /\ opencalls # <<>>
         THEN SubSeq(opencalls, 1, Len(opencalls) - 1)
         ELSE opencalls
    /\ steps' = steps + 1
    /\ UNCHANGED <<simproc, depth0>>

Throw ==
    /\ Running /\ ~AtSimProcedure
    /\ LET stmt == Stmt("THROW", <<>>, <<>>, "f", TRUE, 0)
       IN Exec(stmt, Throw_handle(State, stmt))

Phi ==
    /\ Running /\ ~AtSimProcedure
    /\ LET stmt == Stmt("PHI", <<>>, <<>>, "f", TRUE, 0)
       IN Exec(stmt, Phi_handle(State, stmt))

Const ==
    /\ Running /\ ~AtSimProcedure
    /\ \E v \in ConstVars, n \in ConstVals :
         LET stmt == Stmt("CONST", <<>>, <<v>>, "f", TRUE, n)
         IN Exec(stmt, Const_handle(State, stmt))

Nop ==
    /\ Running /\ ~AtSimProcedure
    /\ LET stmt == Stmt("NOP", <<>>, <<>>, "f", TRUE, 0)
       IN Exec(stmt, Nop_handle(State, stmt))

Callprivateargs ==
    /\ Running /\ ~AtSimProcedure
    /\ LET stmt == Stmt("CALLPRIVATEARG", <<>>, <<>>, "f", TRUE, 0)
       IN Exec(stmt, Callprivateargs_handle(State, stmt))

Callprivate ==
    /\ Running /\ ~AtSimProcedure
    /\ \E site \in CallSites, ft \in BOOLEAN :
         LET stmt == Stmt("CALLPRIVATE", site.arg_vars, site.res_vars, site.target, ft, 0)
         IN Exec(stmt, Callprivate_handle(State, stmt))

Returnprivate ==
    /\ Running /\ ~AtSimProcedure
    /\ \E av \in RetArgLists :
         LET stmt == Stmt("RETURNPRIVATE", av, <<>>, "f", TRUE, 0)
         IN Exec(stmt, Returnprivate_handle(State, stmt))

SafeMul ==
    /\ Running /\ AtSimProcedure /\ simproc = "SIMPROCEDURE_SAFEMUL"
    /\ LET stmt == Stmt("SIMPROCEDURE_SAFEMUL", <<>>, <<>>, "g", TRUE, 0)
       IN Exec(stmt, SimProcedureStatement_handle(State, stmt))

SafeDiv ==
    /\ Running /\ AtSimProcedure /\ simproc = "SIMPROCEDURE_SAFEDIV"
    /\ LET stmt == Stmt("SIMPROCEDURE_SAFEDIV", <<>>, <<>>, "g", TRUE, 0)
       IN Exec(stmt, SimProcedureStatement_handle(State, stmt))

SafeAdd ==
    /\ Running /\ AtSimProcedure /\ simproc = "SIMPROCEDURE_SAFEADD"
    /\ LET stmt == Stmt("SIMPROCEDURE_SAFEADD", <<>>, <<>>, "g", TRUE, 0)
       IN Exec(stmt, SimProcedureStatement_handle(State, stmt))

SafeSub ==
    /\ Running /\ AtSimProcedure /\ simproc = "SIMPROCEDURE_SAFESUB"
    /\ LET stmt == Stmt("SIMPROCEDURE_SAFESUB", <<>>, <<>>, "g", TRUE, 0)
       IN Exec(stmt, SimProcedureStatement_handle(State, stmt))

NoRegisters == [v \in Vars |-> Unbound]

InitHistory ==
    /\ out = "ok"
    /\ code = <<>>
    /\ last = [stmt |-> NoStmt, pre |-> State, opencalls |-> <<>>, returned |-> <<>>,
               prev |-> NoStmt, before |-> State]
    /\ opencalls = <<>>
    /\ calls = 0
    /\ rets = 0
    /\ depth0 = Len(callstack)
    /\ steps = 0

\* A fresh path: the entry state of the program.
Init ==
    /\ \E vr \in InputVals :
         registers = [NoRegisters EXCEPT !["r"] = vr, !["s"] = BVS(2)]
    /\ callstack = <<>>
    /\ pc = 0
    /\ halt = FALSE
    /\ constraints = <<>>
    /\ simproc \in SimProcedures
    /\ InitHistory

Next ==
    \/ Throw
    \/ Phi
    \/ Const
    \/ Nop
    \/ Callprivateargs
    \/ Callprivate
    \/ Returnprivate
    \/ SafeMul
    \/ SafeDiv
    \/ SafeAdd
    \/ SafeSub

Spec == Init /\ [][Next]_vars

(***************************************************************************)
(* The stubs alone: a state at the entry of "g", as a CALLPRIVATE leaves   *)
(* it (one frame pushed, the formals bound to concrete or symbolic words,  *)
(* or left unbound by a call with too few actuals), or as a jump into "g"  *)
(* without a call leaves it (no frame), then the SimProcedure statement.   *)
(***************************************************************************)
Words == 0..(WordLimit - 1)
OperandVals == {BVV(n, WordBits) : n \in Words} \cup {BVS(1), BVS(2)} \cup {Unbound}

EntryFrames ==
    {[callprivate_pc |-> 0, saved_return_pc |-> ret, callprivate_return_vars |-> rv] :
        ret \in {get_fallthrough_pc(0), FakeExitPc}, rv \in {<<"r">>, <<"r", "s">>}}

InitSafeMath ==
    /\ \E vx \in OperandVals, vy \in OperandVals :
         registers = [NoRegisters EXCEPT !["r"] = BVS(1), !["s"] = BVS(2),
                                         !["x"] = vx, !["y"] = vy]
    /\ callstack \in {<<>>} \cup {<<fr>> : fr \in EntryFrames}
    /\ pc = FirstIns("g")
    /\ halt = FALSE
    /\ constraints = <<>>
    /\ simproc \in SimProcedures
    /\ InitHistory

NextSafeMath ==
    \/ SafeMul
    \/ SafeDiv
    \/ SafeAdd
    \/ SafeSub

SpecSafeMath == InitSafeMath /\ [][NextSafeMath]_vars

\* Private returns on their own: execution starts at a statement that returns,
\* either the stub at the entry of "g" or a RETURNPRIVATE at the entry of "h",
\* with at most one frame on the callstack.
InitReturn ==
    /\ \E vx \in OperandVals, vy \in OperandVals :
         registers = [NoRegisters EXCEPT !["r"] = BVS(1), !["s"] = BVS(2),
                                         !["d"] = BVS(1),
                                         !["x"] = vx, !["y"] = vy]
    /\ callstack \in {<<>>} \cup {<<fr>> : fr \in EntryFrames}
    /\ pc \in {FirstIns("g"), FirstIns("h")}
    /\ halt = FALSE
    /\ constraints = <<>>
    /\ simproc \in SimProcedures
    /\ InitHistory

NextReturn ==
    \/ Returnprivate
    \/ SafeMul
    \/ SafeDiv
    \/ SafeAdd
    \/ SafeSub

SpecReturn == InitReturn /\ [][NextReturn]_vars

(***************************************************************************)
(* Properties.  "last" holds the statement executed last, the state it ran *)
(* on (last.pre) and the calls open at that time (last.opencalls).         *)
(***************************************************************************)
Did(kind) == last.stmt.kind = kind
DidReturn == IsReturnKind(last.stmt.kind)
DidSimProcedure == last.stmt.kind \in SimProcedures

Top(seq) == seq[Len(seq)]
Front(seq) == SubSeq(seq, 1, Len(seq) - 1)

\* C1: the callstack depth is the initial depth plus the CALLPRIVATE executed
\* minus the private returns executed (RETURNPRIVATE statements and stub
\* returns), so balanced call/return pairs leave the depth as it was; and a
\* statement that is neither a CALLPRIVATE nor a private return leaves the
\* callstack as it was.
C1_StackDepth ==
    /\ Len(callstack) = depth0 + calls - rets
    /\ (calls = rets => Len(callstack) = depth0)
    /\ (~Did("CALLPRIVATE") /\ ~DidReturn => callstack = last.pre.callstack)

\* Two calls and two returns have been executed and the depth is back at the
\* initial depth.
C1_Witness == calls = 2 /\ rets = 2 /\ Len(callstack) = depth0

\* C2: after a private return that returned the values v1..vk to the call it
\* matches (the innermost open call, with result variables r1..rm), register
\* r_i holds v_i for every i <= min(m, k) and pc is the fallthrough location
\* computed when that CALLPRIVATE executed.
C2_ReturnBindsResults ==
    (DidReturn /\ out = "ok" /\ last.opencalls # <<>>) =>
        LET call == Top(last.opencalls)
            rv == call.stmt.res_vars
            v == last.returned
        IN /\ \A i \in 1..Min(Len(rv), Len(v)) : registers[rv[i]] = v[i]
           /\ pc = call.fallthrough

\* A RETURNPRIVATE returned two values to a call with two result variables,
\* after a nested call had returned.
C2_Witness ==
    /\ Did("RETURNPRIVATE") /\ out = "ok"
    /\ Len(last.returned) = 2
    /\ Len(Top(last.opencalls).stmt.res_vars) = 2
    /\ calls = 2 /\ rets = 2

\* The operands of a CALLPRIVATE: its actuals, the formals of its target,
\* the number of matched pairs, and the formals left without an actual.
Actuals(stmt) == Tail(stmt.arg_vars)
Formals(stmt) == Arguments(stmt.target)
Matched(stmt) == Min(Len(Actuals(stmt)), Len(Formals(stmt)))
Unmatched(stmt) == {Formals(stmt)[i] : i \in (Matched(stmt) + 1)..Len(Formals(stmt))}

\* C3 (as claimed): after a CALLPRIVATE, for every matched (formal_i, actual_i)
\* the register formal_i holds the value the register actual_i held before the
\* call, also when the actuals are formals of the target.
C3_FormalsHoldActualsBefore ==
    (Did("CALLPRIVATE") /\ out = "ok") =>
        \A i \in 1..Matched(last.stmt) :
            registers[Formals(last.stmt)[i]] = last.pre.registers[Actuals(last.stmt)[i]]

\* C4: a CALLPRIVATE whose actuals are bound succeeds whatever the number of
\* actuals: it writes the first min(n, m) formals, leaves every other register
\* as it was, pushes exactly one frame and jumps.  A private return to an
\* existing frame succeeds whatever the number of values: it leaves every
\* register but the first min(k, m) result variables as it was, pops the frame
\* and restores pc.
C4_ArityTolerated ==
    /\ (Did("CALLPRIVATE") /\ AllBound(last.pre, Actuals(last.stmt))) =>
          LET written == {Formals(last.stmt)[i] : i \in 1..Matched(last.stmt)}
          IN /\ out = "ok"
             /\ Len(callstack) = Len(last.pre.callstack) + 1
             /\ Front(callstack) = last.pre.callstack
             /\ pc = FirstIns(last.stmt.target)
             /\ \A v \in written : registers[v] # Unbound
             /\ \A v \in Vars \ written : registers[v] = last.pre.registers[v]
    /\ (/\ DidReturn
        /\ last.pre.callstack # <<>>
        /\ Did("RETURNPRIVATE") => AllBound(last.pre, Tail(last.stmt.arg_vars))
        /\ DidSimProcedure => out = "ok") =>
          LET frame == Top(last.pre.callstack)
              rv == frame.callprivate_return_vars
              bound == {rv[i] : i \in 1..Min(Len(rv), Len(last.returned))}
          IN /\ out = "ok"
             /\ callstack = Front(last.pre.callstack)
             /\ pc = frame.saved_return_pc
             /\ \A v \in bound : registers[v] # Unbound
             /\ \A v \in Vars \ bound : registers[v] = last.pre.registers[v]

\* A RETURNPRIVATE returned more values than the frame has result variables,
\* to a call that supplied fewer actuals than its target has formals.
C4_Witness ==
    /\ Did("RETURNPRIVATE") /\ out = "ok" /\ last.opencalls # <<>>
    /\ Len(last.returned) > Len(Top(last.pre.callstack).callprivate_return_vars)
    /\ Len(Actuals(Top(last.opencalls).stmt)) < Len(Formals(Top(last.opencalls).stmt))

\* The registers a statement reads.
Reads(stmt) ==
    IF stmt.kind \in SimProcedures THEN {Arguments("g")[i] : i \in 1..Len(Arguments("g"))}
    ELSE IF stmt.kind = "RETURNPRIVATE"
         THEN {Tail(stmt.arg_vars)[i] : i \in 1..Len(Tail(stmt.arg_vars))}
    ELSE IF stmt.kind = "CALLPRIVATE"
         THEN {Actuals(stmt)[i] : i \in 1..Matched(stmt)}
    ELSE {}

\* The last statement ran directly after a CALLPRIVATE with fewer actuals than
\* formals, and read a formal that call left unmatched.
ReadUnmatchedAfterShortCall ==
    /\ last.prev.kind = "CALLPRIVATE"
    /\ Reads(last.stmt) \cap Unmatched(last.prev) # {}

\* C5 (as claimed): after a CALLPRIVATE with fewer actuals than formals, a read
\* of an unmatched formal fails with the uninitialized-register error, whatever
\* ran earlier on the path.
C5_UnmatchedReadFails ==
    ReadUnmatchedAfterShortCall => out = "uninitialized"

\* C5 (amended): a CALLPRIVATE leaves every unmatched formal as it was before
\* the call, and a read directly after it fails with the uninitialized-register
\* error exactly when a register it reads is unbound; an unmatched formal bound
\* earlier on the path is read without error.
C5_UnmatchedReadFailsIfUnbound ==
    /\ (Did("CALLPRIVATE") /\ out = "ok") =>
          \A v \in Unmatched(last.stmt) : registers[v] = last.pre.registers[v]
    /\ ReadUnmatchedAfterShortCall =>
          (out = "uninitialized" <=> \E v \in Reads(last.stmt) : last.pre.registers[v] = Unbound)

\* The stub of "g" ran directly after a call of "g" with one actual, and
\* failed reading the second formal.
C5_Witness ==
    /\ ReadUnmatchedAfterShortCall
    /\ DidSimProcedure
    /\ last.pre.registers["y"] = Unbound
    /\ out = "uninitialized"

(***************************************************************************)
(* Properties of the SAFEMATH stubs.  The stub of "g" ran last; its        *)
(* operands are the formals x and y as they were before it, and its frame  *)
(* is the top of the callstack it ran on.                                  *)
(***************************************************************************)
OpA == last.pre.registers["x"]
OpB == last.pre.registers["y"]
Concrete(t) == t.op = "BVV"
Symbolic(t) == t # Unbound /\ t.op # "BVV"

HasFrame == last.pre.callstack # <<>>
Frame == Top(last.pre.callstack)
\* the caller's result register: the first result variable of the frame
ResultReg == registers[Frame.callprivate_return_vars[1]]
\* one successor, the frame popped, pc at the saved return location
Returned ==
    /\ out = "ok"
    /\ callstack = Front(last.pre.callstack)
    /\ pc = Frame.saved_return_pc
NoConstraintAdded == constraints = last.pre.constraints
OneConstraintAdded(c) ==
    constraints = Append(last.pre.constraints, [formula |-> c, safemath |-> TRUE])

\* the exact integer result of the checked operation on concrete operands
Exact(kind, m, n) ==
    IF kind = "SIMPROCEDURE_SAFEADD" THEN m + n
    ELSE IF kind = "SIMPROCEDURE_SAFESUB" THEN m - n
    ELSE m * n

\* C6: checked add, subtract and multiply on two concrete operands: when the
\* exact result is a word (a+b < 2^w, a*b < 2^w, a-b >= 0) the stub yields one
\* successor whose result register holds that concrete value, adds no path
\* constraint and pops the frame; otherwise it yields no successor.
C6_ConcreteOperands ==
    (/\ last.stmt.kind \in {"SIMPROCEDURE_SAFEADD", "SIMPROCEDURE_SAFESUB",
                            "SIMPROCEDURE_SAFEMUL"}
     /\ HasFrame /\ Concrete(OpA) /\ Concrete(OpB)) =>
        LET exact == Exact(last.stmt.kind, OpA.val, OpB.val)
        IN IF 0 <= exact /\ exact < WordLimit
           THEN Returned /\ ResultReg = BVV(exact, WordBits) /\ NoConstraintAdded
           ELSE out = "pruned"

\* Checked add of 2^w - 1 and 1 was pruned.
C6_Witness ==
    /\ Did("SIMPROCEDURE_SAFEADD") /\ HasFrame
    /\ OpA = BVV(WordLimit - 1, WordBits) /\ OpB = BVV(1, WordBits)
    /\ out = "pruned"

\* C7 (as claimed): checked multiply with one operand concrete 0 and the other
\* symbolic yields one successor whose result register is concrete 0, and adds
\* no path constraint.
C7_MulByZero ==
    (/\ Did("SIMPROCEDURE_SAFEMUL") /\ HasFrame
     /\ \/ OpA = BVV(0, WordBits) /\ Symbolic(OpB)
        \/ OpB = BVV(0, WordBits) /\ Symbolic(OpA)) =>
        Returned /\ ResultReg = BVV(0, WordBits) /\ NoConstraintAdded

\* C8: checked divide with a symbolic divisor b adds exactly one path
\* constraint, b != 0, tagged safemath, binds the result register to the
\* unsigned division a / b and yields one successor with the frame popped and
\* pc at the saved return location.
C8_DivSymbolicDivisor ==
    (Did("SIMPROCEDURE_SAFEDIV") /\ HasFrame /\ OpA # Unbound /\ Symbolic(OpB)) =>
        /\ Returned
        /\ OneConstraintAdded(NotEqual(OpB, BVV(0, WordBits)))
        /\ ResultReg = BV_UDiv(OpA, OpB)

\* Checked divide ran with a concrete dividend and a symbolic divisor.
C8_Witness ==
    /\ Did("SIMPROCEDURE_SAFEDIV") /\ HasFrame
    /\ Concrete(OpA) /\ Symbolic(OpB)
    /\ out = "ok" /\ Len(constraints) = 1

\* C9: checked subtract with two symbolic operands adds exactly one path
\* constraint, a >= b (unsigned) on the operands at their own width, binds the
\* result register to a - b at that width and yields one successor.
C9_SubSymbolic ==
    (Did("SIMPROCEDURE_SAFESUB") /\ HasFrame /\ Symbolic(OpA) /\ Symbolic(OpB)) =>
        /\ Returned
        /\ OneConstraintAdded(BV_UGE(OpA, OpB))
        /\ \A i \in 1..Len(constraints) :
              \A j \in 1..Len(constraints[i].formula.args) :
                  constraints[i].formula.args[j].w = WordBits
        /\ ResultReg = BV_Sub(OpA, OpB)
        /\ ResultReg.w = WordBits

\* Checked subtract ran on two different symbols.
C9_Witness ==
    /\ Did("SIMPROCEDURE_SAFESUB") /\ HasFrame
    /\ OpA = BVS(1) /\ OpB = BVS(2)
    /\ out = "ok" /\ Len(constraints) = 1

\* C10 (as claimed): checked divide with a concrete zero divisor yields no
\* successor; with two concrete operands and a nonzero divisor it binds the
\* concrete quotient and adds no path constraint.
C10_DivConcretePolicy ==
    (Did("SIMPROCEDURE_SAFEDIV") /\ HasFrame /\ OpA # Unbound /\ Concrete(OpB)) =>
        IF OpB.val = 0 THEN out = "pruned"
        ELSE Concrete(OpA) =>
                /\ Returned
                /\ ResultReg = BVV(OpA.val \div OpB.val, WordBits)
                /\ NoConstraintAdded

\* C10 (amended): checked divide does not look at concreteness: with a concrete
\* divisor, zero included, it yields one successor, adds the one constraint
\* b != 0 tagged safemath, and binds the result register to the division term.
C10_DivConcreteUnchecked ==
    (Did("SIMPROCEDURE_SAFEDIV") /\ HasFrame /\ OpA # Unbound /\ Concrete(OpB)) =>
        /\ Returned
        /\ OneConstraintAdded(NotEqual(OpB, BVV(0, WordBits)))
        /\ ResultReg = BV_UDiv(OpA, OpB)

\* Checked divide by the concrete word 0 returned a successor.
C10_Witness ==
    /\ Did("SIMPROCEDURE_SAFEDIV") /\ HasFrame
    /\ Concrete(OpA) /\ OpB = BVV(0, WordBits)
    /\ out = "ok"

\* C11 (as claimed): a CALLPRIVATE that supplies both formals of "g", followed
\* by the stub of "g", looks like a call and its return whenever the stub does
\* not prune: the stub read the values the actuals held before the call, it
\* yields one successor, the callstack is the one before the call, pc is the
\* fallthrough of the call site and the first result variable of the call
\* holds the stub's result.
C11_StubLooksLikeCall ==
    (/\ DidSimProcedure
     /\ last.prev.kind = "CALLPRIVATE"
     /\ Len(Actuals(last.prev)) >= Len(Formals(last.prev))
     /\ out # "pruned") =>
        /\ OpA = last.before.registers[Actuals(last.prev)[1]]
        /\ OpB = last.before.registers[Actuals(last.prev)[2]]
        /\ out = "ok"
        /\ callstack = last.before.callstack
        /\ pc = Top(last.opencalls).fallthrough
        /\ Len(last.returned) = 1
        /\ registers[last.prev.res_vars[1]] = last.returned[1]

\* C12: a private return on an empty callstack -- a RETURNPRIVATE statement,
\* or a stub that got as far as the return primitive -- ends in an error, so
\* it has no successor, and leaves pc, the registers and the (empty) callstack
\* as they were.
C12_ReturnOnEmptyCallstack ==
    (/\ last.pre.callstack = <<>>
     /\ \/ Did("RETURNPRIVATE")
        \/ DidSimProcedure /\ last.returned # <<>>) =>
        /\ out \notin {"ok", "pruned"}
        /\ pc = last.pre.pc
        /\ registers = last.pre.registers
        /\ callstack = <<>>

\* a RETURNPRIVATE whose operands were all bound met an empty callstack
C12_Witness ==
    /\ Did("RETURNPRIVATE")
    /\ last.pre.callstack = <<>>
    /\ last.returned # <<>>
    /\ out = "IndexError"

\* The statements a private return may land on: the fake exit, and the
\* fallthrough of a call site of the program that has a successor.
ReturnLocations ==
    {FakeExitPc} \cup
    {get_fallthrough_pc(p) : p \in {q \in DOMAIN code :
                                      code[q].kind = "CALLPRIVATE" /\ code[q].has_ft}}

\* C13: the frame a CALLPRIVATE pushes holds the fallthrough of the call site
\* when the call site has a successor and the fake exit when it has none; a
\* CALLPRIVATE fails only on an unbound actual, never for lack of a successor;
\* every frame on the callstack, and pc after every private return, is such a
\* return location.
C13_ValidReturnLocation ==
    /\ (Did("CALLPRIVATE") /\ out = "ok") =>
          /\ callstack # <<>>
          /\ Top(callstack).saved_return_pc =
                IF last.stmt.has_ft THEN get_fallthrough_pc(last.pre.pc)
                                    ELSE FakeExitPc
    /\ Did("CALLPRIVATE") =>
          \/ out = "ok"
          \/ /\ out = "uninitialized"
             /\ \E i \in 1..Matched(last.stmt) :
                   last.pre.registers[Actuals(last.stmt)[i]] = Unbound
    /\ \A i \in 1..Len(callstack) : callstack[i].saved_return_pc \in ReturnLocations
    /\ (DidReturn /\ out = "ok") => pc \in ReturnLocations

\* a private return popped a frame pushed by a call site without a successor
C13_Witness ==
    /\ DidReturn
    /\ out = "ok"
    /\ pc = FakeExitPc
    /\ \E q \in DOMAIN code : code[q].kind = "CALLPRIVATE" /\ ~code[q].has_ft

\* C14: each base statement yields one successor and touches only its own
\* fields. THROW sets halt and nothing else; PHI, NOP and CALLPRIVATEARG move
\* pc to the next statement and nothing else; CONST moves pc to the next
\* statement and binds its one result register to the declared constant.
\* None changes the callstack or the constraints.
C14_BaseStatementFrames ==
    /\ Did("THROW") =>
          /\ out = "ok"
          /\ halt = TRUE
          /\ pc = last.pre.pc
          /\ registers = last.pre.registers
          /\ callstack = last.pre.callstack
          /\ constraints = last.pre.constraints
    /\ last.stmt.kind \in {"PHI", "NOP", "CALLPRIVATEARG"} =>
          /\ out = "ok"
          /\ pc = last.pre.pc + 1
          /\ halt = last.pre.halt
          /\ registers = last.pre.registers
          /\ callstack = last.pre.callstack
          /\ constraints = last.pre.constraints
    /\ Did("CONST") =>
          /\ out = "ok"
          /\ pc = last.pre.pc + 1
          /\ halt = last.pre.halt
          /\ registers = [last.pre.registers EXCEPT
                            ![last.stmt.res_vars[1]] = BVV(last.stmt.val, WordBits)]
          /\ callstack = last.pre.callstack
          /\ constraints = last.pre.constraints

\* a THROW inside a called function, after a stub has added a constraint
C14_Witness ==
    /\ Did("THROW")
    /\ callstack # <<>>
    /\ constraints # <<>>

\* ---------------------------------------------------------------------------
\* Meaning of the solver terms over the words: an assignment gives every
\* symbol a word, a bit-vector term denotes a number below 2^(its width), a
\* comparison denotes a truth value.
Assignments == [{1, 2} -> Words]

RECURSIVE Value(_, _)
Value(t, m) ==
    CASE t.op = "BVV" -> t.val % Pow2(t.w)
      [] t.op = "BVS" -> m[t.val]
      [] t.op = "BV_Add" -> (Value(t.args[1], m) + Value(t.args[2], m)) % Pow2(t.w)
      [] t.op = "BV_Sub" ->
            (Value(t.args[1], m) + Pow2(t.w) - Value(t.args[2], m)) % Pow2(t.w)
      [] t.op = "BV_Mul" -> (Value(t.args[1], m) * Value(t.args[2], m)) % Pow2(t.w)
      [] t.op = "BV_UDiv" ->
            IF Value(t.args[2], m) = 0 THEN Pow2(t.w) - 1
            ELSE Value(t.args[1], m) \div Value(t.args[2], m)
      [] t.op = "BV_Zero_Extend" -> Value(t.args[1], m)

Satisfies(m, c) ==
    CASE c.op = "BV_ULT" -> Value(c.args[1], m) < Value(c.args[2], m)
      [] c.op = "BV_UGE" -> Value(c.args[1], m) >= Value(c.args[2], m)
      [] c.op = "NotEqual" -> Value(c.args[1], m) # Value(c.args[2], m)

OneConcrete == Concrete(OpA) # Concrete(OpB) /\ OpA # Unbound /\ OpB # Unbound
BothSymbolic == Symbolic(OpA) /\ Symbolic(OpB)
ConcOp == IF Concrete(OpA) THEN OpA ELSE OpB
SymOp == IF Concrete(OpA) THEN OpB ELSE OpA
\* one constraint was appended and it carries the safemath tag
OneTaggedConstraintAdded ==
    /\ Len(constraints) = Len(last.pre.constraints) + 1
    /\ Front(constraints) = last.pre.constraints
    /\ Top(constraints).safemath = TRUE
Added == Top(constraints).formula

\* C15 (as claimed): checked multiply with exactly one concrete operand c.
\* For c = 1 the result is the symbolic operand and no constraint is added;
\* for c >= 2 one tagged constraint is added, satisfied by exactly the words s
\* with c * s < 2^w, and the result is the width-w product term.
C15_MulOneConcrete ==
    (Did("SIMPROCEDURE_SAFEMUL") /\ HasFrame /\ OneConcrete) =>
        /\ ConcOp.val = 1 =>
              Returned /\ ResultReg = SymOp /\ NoConstraintAdded
        /\ ConcOp.val >= 2 =>
              /\ Returned
              /\ OneTaggedConstraintAdded
              /\ \A m \in Assignments :
                    Satisfies(m, Added) <=> ConcOp.val * Value(SymOp, m) < WordLimit
              /\ ResultReg = BV_Mul(OpA, OpB)

\* C16: checked add with exactly one concrete operand c. For c = 0 the result
\* is the symbolic operand and no constraint is added; for c > 0 the one
\* tagged constraint s < 2^w - c is added, satisfied by exactly the words s
\* with c + s < 2^w, and the result is the width-w sum term.
C16_AddOneConcrete ==
    (Did("SIMPROCEDURE_SAFEADD") /\ HasFrame /\ OneConcrete) =>
        /\ ConcOp.val = 0 =>
              Returned /\ ResultReg = SymOp /\ NoConstraintAdded
        /\ ConcOp.val > 0 =>
              /\ Returned
              /\ OneTaggedConstraintAdded
              /\ Added = BV_ULT(SymOp, BVV(WordLimit - ConcOp.val, WordBits))
              /\ \A m \in Assignments :
                    Satisfies(m, Added) <=> ConcOp.val + Value(SymOp, m) < WordLimit
              /\ ResultReg = BV_Add(OpA, OpB)

\* checked add of a symbol and the largest word: only s = 0 is admitted
C16_Witness ==
    /\ Did("SIMPROCEDURE_SAFEADD") /\ HasFrame /\ OneConcrete
    /\ ConcOp.val = WordLimit - 1
    /\ out = "ok"
    /\ Len(constraints) = 1

\* C17: checked add and checked multiply with both operands symbolic add one
\* tagged constraint, built on the operands zero-extended to w+1 bits (add) or
\* 2w bits (multiply), satisfied by exactly the pairs of words whose integer
\* sum / product is below 2^w; the result register holds the width-w term,
\* whose value under the constraint is that integer sum / product.
C17_BothSymbolic ==
    /\ (Did("SIMPROCEDURE_SAFEADD") /\ HasFrame /\ BothSymbolic) =>
          /\ Returned
          /\ OneTaggedConstraintAdded
          /\ Added = BV_ULT(BV_Add(BV_Zero_Extend(OpA, 1), BV_Zero_Extend(OpB, 1)),
                            BVV(WordLimit, WordBits + 1))
          /\ Added.args[1].w = WordBits + 1
          /\ ResultReg = BV_Add(OpA, OpB)
          /\ ResultReg.w = WordBits
          /\ \A m \in Assignments :
                LET sum == Value(OpA, m) + Value(OpB, m)
                IN /\ Satisfies(m, Added) <=> sum < WordLimit
                   /\ Satisfies(m, Added) => Value(ResultReg, m) = sum
    /\ (Did("SIMPROCEDURE_SAFEMUL") /\ HasFrame /\ BothSymbolic) =>
          /\ Returned
          /\ OneTaggedConstraintAdded
          /\ Added = BV_ULT(BV_Mul(BV_Zero_Extend(OpA, WordBits),
                                   BV_Zero_Extend(OpB, WordBits)),
                            BVV(WordLimit, 2 * WordBits))
          /\ Added.args[1].w = 2 * WordBits
          /\ ResultReg = BV_Mul(OpA, OpB)
          /\ ResultReg.w = WordBits
          /\ \A m \in Assignments :
                LET product == Value(OpA, m) * Value(OpB, m)
                IN /\ Satisfies(m, Added) <=> product < WordLimit
                   /\ Satisfies(m, Added) => Value(ResultReg, m) = product

\* checked multiply of two different symbols returned
C17_Witness ==
    /\ Did("SIMPROCEDURE_SAFEMUL") /\ HasFrame
    /\ OpA = BVS(1) /\ OpB = BVS(2)
    /\ out = "ok"
    /\ Len(constraints) = 1

\* C18: private returns match calls last-in-first-out. The callstack holds
\* one frame per open call, in call order, each with the fallthrough and the
\* result variables of its call; a CALLPRIVATE leaves the frames below the new
\* one as they were; a private return removes only the top frame, binds the
\* result variables of the innermost open call and sets pc to its fallthrough,
\* so of two nested calls the inner one is returned to first.
C18_ReturnsAreLIFO ==
    /\ Len(callstack) = Len(opencalls)
    /\ \A i \in 1..Len(callstack) :
          /\ callstack[i].saved_return_pc = opencalls[i].fallthrough
          /\ callstack[i].callprivate_return_vars = opencalls[i].stmt.res_vars
    /\ (Did("CALLPRIVATE") /\ out = "ok") => Front(callstack) = last.pre.callstack
    /\ (DidReturn /\ out = "ok") =>
          LET inner == Top(last.opencalls)
              rv == inner.stmt.res_vars
          IN /\ callstack = Front(last.pre.callstack)
             /\ opencalls = Front(last.opencalls)
             /\ pc = inner.fallthrough
             /\ \A i \in 1..Min(Len(rv), Len(last.returned)) :
                   registers[rv[i]] = last.returned[i]
    /\ (DidReturn /\ out # "ok") => callstack = last.pre.callstack

\* two nested calls were returned from one after the other, the outer one last
C18_Witness ==
    /\ DidReturn /\ out = "ok"
    /\ IsReturnKind(last.prev.kind)
    /\ calls = 2 /\ rets = 2
    /\ Len(last.opencalls) = 1
    /\ pc = get_fallthrough_pc(0)

\* C19 (as claimed): a RETURNPRIVATE with operands op_1..op_k binds the i-th
\* result variable of the popped frame to the value the register named by
\* op_i held, starting with op_1.
C19_ReturnsAllOperands ==
    (Did("RETURNPRIVATE") /\ out = "ok") =>
        LET ops == last.stmt.arg_vars
            rv == Top(last.pre.callstack).callprivate_return_vars
        IN \A i \in 1..Min(Len(rv), Len(ops)) :
              registers[rv[i]] = last.pre.registers[ops[i]]

\* C19 (amended): a RETURNPRIVATE with operands op_1..op_k skips op_1 and
\* returns the values of op_2..op_k in order: the i-th result variable of the
\* popped frame is bound to the value the register named by op_(i+1) held.
C19_ReturnsOperandsAfterFirst ==
    (Did("RETURNPRIVATE") /\ out = "ok") =>
        LET ops == last.stmt.arg_vars
            rv == Top(last.pre.callstack).callprivate_return_vars
        IN /\ Len(last.returned) = Len(ops) - 1
           /\ \A i \in 1..(Len(ops) - 1) :
                 last.returned[i] = last.pre.registers[ops[i + 1]]
           /\ \A i \in 1..Min(Len(rv), Len(ops) - 1) :
                 registers[rv[i]] = last.pre.registers[ops[i + 1]]

\* a RETURNPRIVATE with three operands returned to a call with two result
\* variables, and its first two operands held different values
C19_Witness ==
    /\ Did("RETURNPRIVATE") /\ out = "ok"
    /\ Len(last.stmt.arg_vars) = 3
    /\ Len(Top(last.pre.callstack).callprivate_return_vars) = 2
    /\ last.pre.registers[last.stmt.arg_vars[1]] # last.pre.registers[last.stmt.arg_vars[2]]

\* C20: over any run the constraint store only grows by appending. A step
\* keeps the constraints it found as a prefix of the store; only the stubs add
\* to it, at most one constraint per invocation; every constraint added
\* carries the safemath tag; an invocation that prunes adds none.
C20_ConstraintsOnlyGrow ==
    LET before == last.pre.constraints
    IN /\ Len(constraints) >= Len(before)
       /\ SubSeq(constraints, 1, Len(before)) = before
       /\ ~DidSimProcedure => constraints = before
       /\ Len(constraints) <= Len(before) + 1
       /\ \A i \in (Len(before) + 1)..Len(constraints) : constraints[i].safemath = TRUE
       /\ out = "pruned" => constraints = before

\* a second stub invocation appended its constraint after the first one's
C20_Witness ==
    /\ DidSimProcedure
    /\ out = "ok"
    /\ Len(last.pre.constraints) = 1
    /\ Len(constraints) = 2

====
